---- MODULE Spec2Model ----
(***************************************************************************)
(* Model of crawlWebsite (src/app.js): a level-synchronous breadth-first   *)
(* crawl that fetches each level in chunks of concurrencyLimit URLs.       *)
(*                                                                         *)
(* A URL string is modelled by its three parts, exactly as written:        *)
(*   "http://a.com"   = [scheme |-> "http", host |-> "a.com", path |-> ""] *)
(*   "/about"         = [scheme |-> "",     host |-> "",  path |-> "/about"]*)
(* new URL(href, base).href is the operator Resolve, which lower-cases the *)
(* host, gives an empty path the value "/" and fails on unparsable input.  *)
(***************************************************************************)
EXTENDS Integers, Sequences, FiniteSets, TLC

(* ---------------------------- bounds ---------------------------------- *)
MaxDepthBound == 2
MaxConcurrency == 2
MaxPagesBound == 5
MaxSiteLinks == 3

(* ------------------------- URL strings -------------------------------- *)
Str(s, h, p) == [scheme |-> s, host |-> h, path |-> p]

NullLink == [invalid |-> TRUE]

LowerCase(h) == IF h = "A.com" THEN "a.com" ELSE h

\* new URL(s) without a base succeeds iff s has a scheme and a host.
IsAbsolute(s) == s.scheme # ""

ParsesAlone(s) == s.scheme # "" /\ s.host # ""

\* new URL(href, base).href, or NullLink when the constructor throws.
Resolve(href, base) ==
    IF ~ParsesAlone(base) THEN NullLink
    ELSE IF IsAbsolute(href)
         THEN IF href.host = "" THEN NullLink
              ELSE Str(href.scheme, LowerCase(href.host),
                       IF href.path = "" THEN "/" ELSE href.path)
         ELSE Str(base.scheme, LowerCase(base.host),
                  IF href.path = ""
                  THEN (IF base.path = "" THEN "/" ELSE base.path)
                  ELSE href.path)

\* new URL(s).hostname; "" stands for the TypeError of an unparsable s.
Hostname(s) == IF ParsesAlone(s) THEN LowerCase(s.host) ELSE ""

(* --------------------------- the site --------------------------------- *)
SeedPlain == Str("http", "a.com", "")
SeedInvalid == Str("", "", "/about")
Seeds == {SeedPlain, SeedInvalid}

PageRoot == Str("http", "a.com", "/")
PageAbout == Str("http", "a.com", "/about")
PageX == Str("http", "a.com", "/x")
Pages == {PageRoot, PageAbout, PageX}

Hrefs ==
    { Str("", "", "/about"),
      Str("", "", "/"),
      Str("http", "A.com", "/x"),
      Str("http", "b.com", "/x") }

\* The page a request for url reaches: the server sees the normalised URL.
PageOf(url) == Resolve(url, url)

VARIABLES startUrl, maxDepth, concurrencyLimit, maxPages, site,
          visited, currentLevel, nextLevel, depth, i, promises, pc,
          issued, anySucceeded, anyFailed,
          env, smartuiFile, urlsFile, resultsFile, maxAttempts, req

crawl == <<startUrl, maxDepth, concurrencyLimit, maxPages, site,
           visited, currentLevel, nextLevel, depth, i, promises, pc,
           issued, anySucceeded, anyFailed>>

\* process.env, the three files of the working directory, the maxAttempts
\* argument of waitForResultsFile and the state of each POST /run-tests.
server == <<env, smartuiFile, urlsFile, resultsFile, maxAttempts, req>>

vars == <<crawl, server>>

inputs == <<startUrl, maxDepth, concurrencyLimit, maxPages, site>>

\* response.data of a successful GET, as the sequence of its a[href] values.
Body(url) == IF PageOf(url) \in DOMAIN site THEN site[PageOf(url)] ELSE <<>>

(* ------------------- pure pieces of crawlWebsite ---------------------- *)
RECURSIVE Flatten(_)
Flatten(ss) == IF ss = <<>> THEN <<>> ELSE Head(ss) \o Flatten(Tail(ss))

\* Mutant: the first element is skipped.
RangeSkipsFirst(s) == {s[k] : k \in 2..Len(s)}

Range(s) == {s[k] : k \in 1..Len(s)}

Min(a, b) == IF a < b THEN a ELSE b

\* $('a[href]').map(... new URL(href, url).href ...).get().filter(non-null)
ExtractLinks(body, url) ==
    SelectSeq([k \in 1..Len(body) |-> Resolve(body[k], url)],
              LAMBDA l : l # NullLink)

\* Mutant: the hostname test is dropped from the filter.
SameDomainAlways(link, start) == TRUE

\* sameDomain of the filter callback.
SameDomain(link, start) == Hostname(link) = Hostname(start)

\* The filter callback evaluates new URL(startUrl), which throws for an
\* unparsable seed as soon as there is one link to test.
FilterThrows(links, start) == links # <<>> /\ ~ParsesAlone(start)

\* Mutant: the filter does not consult the visited set.
NewLinksNoVisited(links, vis, start) ==
    SelectSeq(links, LAMBDA l : SameDomain(l, start))

\* links.filter(link => sameDomain && !visited.has(link))
NewLinks(links, vis, start) ==
    SelectSeq(links, LAMBDA l : SameDomain(l, start) /\ l \notin vis)

\* Mutant: the slice takes one URL too many.
ChunkOneMore(level, idx, c) ==
    SubSeq(level, idx + 1, Min(idx + c + 1, Len(level)))

\* currentLevel.slice(i, i + concurrencyLimit), with i counted from 0.
Chunk(level, idx, c) == SubSeq(level, idx + 1, Min(idx + c, Len(level)))

\* Mutant: the depth loop runs one level too far.
LoopCondInclusive(d, md) == d <= md

\* for (let depth = 0; depth < maxDepth; depth++)
LoopCond(d, md) == d < md

\* Mutant: the chunk index skips one URL.
NextISkip(idx, c) == idx + c + 1

\* Mutant: the chunk index is not advanced.
NextIStuck(idx, c) == idx

\* i += concurrencyLimit
NextI(idx, c) == idx + c

\* Mutant: the cap test needs one page more.
CapReachedStrict(vis, mp) == Cardinality(vis) > mp

\* Mutant: the cap test fires one page early.
CapReachedEarly(vis, mp) == Cardinality(vis) + 1 >= mp

\* visited.size >= maxPages
CapReached(vis, mp) == Cardinality(vis) >= mp

\* Mutant: the seed is not added to the new set.
InitVisitedEmpty(start) == {}

\* const visited = new Set(); visited.add(startUrl);
InitVisited(start) == {start}

Promise(u, o, st, v) == [url |-> u, outcome |-> o, state |-> st, value |-> v]

\* Mutant: the .catch callback rethrows.
CatchHandlerRethrows(u) == Promise(u, "failed", "rejected", <<>>)

\* .catch(err => { ...; return []; })
CatchHandler(u) == Promise(u, "failed", "fulfilled", <<>>)

\* chunk.map(url => axios.get(url, { timeout: 10000 }).then(...).catch(...))
IssueChunk(level, idx, c) ==
    [k \in 1..Len(Chunk(level, idx, c)) |->
        Promise(Chunk(level, idx, c)[k], "pending", "pending", <<>>)]

\* The requests issued for one chunk, each with the level it belongs to.
FetchLog(level, idx, c, d) ==
    {[url |-> Chunk(level, idx, c)[k], depth |-> d] :
        k \in 1..Len(Chunk(level, idx, c))}

InFlight == {k \in 1..Len(promises) : promises[k].state = "pending"}

(* --------------------- POST /run-tests: state ------------------------- *)
MaxUrls == 2
MaxAttemptsBound == 3

Reqs == {"A", "B"}

\* req.body of request r: its credentials, its browsers/viewports and its
\* selected URLs, each value tagged with the request it came with.
Credentials(r) ==
    [LT_USERNAME |-> <<"username", r>>,
     LT_ACCESS_KEY |-> <<"accessKey", r>>,
     PROJECT_TOKEN |-> <<"projectToken", r>>]

ConfigOf(r) == <<"browsers and viewports", r>>

UrlsOf(r) == <<"selectedUrls", r>>

NoValue == <<"none">>

NoEnv ==
    [LT_USERNAME |-> NoValue, LT_ACCESS_KEY |-> NoValue,
     PROJECT_TOKEN |-> NoValue]

IdleReq ==
    [pc |-> "idle", titlesLeft |-> 0, testCmd |-> NoEnv,
     ranConfig |-> NoValue, ranUrls |-> NoValue,
     attempts |-> 0, sawFile |-> FALSE, callbacks |-> 0,
     cbArg |-> "none", ended |-> 0]

\* The server before any /run-tests request.
ServerIdle ==
    /\ env = NoEnv
    /\ smartuiFile = NoValue
    /\ urlsFile = NoValue
    /\ resultsFile = FALSE
    /\ maxAttempts = 0
    /\ req = [r \in Reqs |-> IdleReq]

(* ----------------------------- actions -------------------------------- *)
\* The arguments of one call and the pages of the site: at most
\* MaxSiteLinks anchors in total.  A request for an unparsable seed reaches
\* no page (Body), so for such a seed the pages are left empty.
Init ==
    /\ startUrl \in Seeds
    /\ maxDepth \in 0..MaxDepthBound
    /\ concurrencyLimit \in 1..MaxConcurrency
    /\ maxPages \in 1..MaxPagesBound
    /\ IF ParsesAlone(startUrl)
       THEN \E l1 \in 0..MaxSiteLinks :
              \E l2 \in 0..(MaxSiteLinks - l1) :
                \E l3 \in 0..(MaxSiteLinks - l1 - l2) :
                  \E b1 \in [1..l1 -> Hrefs], b2 \in [1..l2 -> Hrefs],
                     b3 \in [1..l3 -> Hrefs] :
                    site = [p \in Pages |->
                               IF p = PageRoot THEN b1
                               ELSE IF p = PageAbout THEN b2 ELSE b3]
       ELSE site = [p \in Pages |-> <<>>]
    /\ visited = {}
    /\ currentLevel = <<>>
    /\ nextLevel = <<>>
    /\ depth = 0
    /\ i = 0
    /\ promises = <<>>
    /\ pc = "idle"
    /\ issued = {}
    /\ anySucceeded = FALSE
    /\ anyFailed = FALSE
    /\ ServerIdle

\* return visited
Return(level, d) ==
    /\ pc' = "done"
    /\ currentLevel' = level
    /\ depth' = d
    /\ promises' = <<>>
    /\ UNCHANGED <<nextLevel, i, issued>>

\* Top of the depth loop with currentLevel = level: either the first chunk
\* of the level is issued and the function suspends at the await, or the
\* loop condition fails and the function returns.
EnterLevel(level, d) ==
    IF LoopCond(d, maxDepth)
    THEN /\ pc' = "await"
         /\ currentLevel' = level
         /\ depth' = d
         /\ nextLevel' = <<>>
         /\ i' = 0
         /\ promises' = IssueChunk(level, 0, concurrencyLimit)
         /\ issued' = issued \cup FetchLog(level, 0, concurrencyLimit, d)
    ELSE Return(level, d)

\* Lines 98-100: currentLevel = nextLevel; break on the cap or an empty
\* level, otherwise depth++ and the loop condition is tested again.
LevelEnd(nl, vis) ==
    IF CapReached(vis, maxPages) \/ nl = <<>>
    THEN Return(nl, depth)
    ELSE EnterLevel(nl, depth + 1)

\* crawlWebsite(startUrl, maxDepth, concurrencyLimit, maxPages) up to its
\* first await (or its return).
Start ==
    /\ pc = "idle"
    /\ visited' = InitVisited(startUrl)
    /\ EnterLevel(<<startUrl>>, 0)
    /\ UNCHANGED server
    /\ UNCHANGED <<inputs, anySucceeded, anyFailed>>

\* The .then callback of the k-th request of the chunk: the response has
\* arrived; a throw inside the callback is routed to the .catch callback.
Respond(k) ==
    /\ pc = "await"
    /\ k \in InFlight
    /\ LET url == promises[k].url
           links == ExtractLinks(Body(url), url)
       IN IF FilterThrows(links, startUrl)
          THEN /\ promises' = [promises EXCEPT ![k] = CatchHandler(url)]
               /\ UNCHANGED visited
          ELSE /\ promises' = [promises EXCEPT ![k] =
                       Promise(url, "ok", "fulfilled",
                               NewLinks(links, visited, startUrl))]
               /\ visited' = visited \cup
                       Range(NewLinks(links, visited, startUrl))
    /\ anySucceeded' = TRUE
    /\ UNCHANGED server
    /\ UNCHANGED <<inputs, currentLevel, nextLevel, depth, i, pc, issued,
                   anyFailed>>

\* The .catch callback of the k-th request: network error, bad status or
\* the 10 s timeout.
Fail(k) ==
    /\ pc = "await"
    /\ k \in InFlight
    /\ promises' = [promises EXCEPT ![k] = CatchHandler(promises[k].url)]
    /\ anyFailed' = TRUE
    /\ UNCHANGED server
    /\ UNCHANGED <<inputs, visited, currentLevel, nextLevel, depth, i, pc,
                   issued, anySucceeded>>

\* await Promise.all(promises) settles: lines 93-100 run, up to the next
\* await or the return.  A rejected promise would make the await throw.
Resume ==
    /\ pc = "await"
    /\ InFlight = {}
    /\ IF \E k \in 1..Len(promises) : promises[k].state = "rejected"
       THEN /\ pc' = "threw"
            /\ UNCHANGED <<currentLevel, nextLevel, depth, i, promises,
                           issued>>
       ELSE LET nl == nextLevel \o
                        Flatten([k \in 1..Len(promises) |-> promises[k].value])
            IN IF CapReached(visited, maxPages)
               THEN LevelEnd(nl, visited)
               ELSE IF NextI(i, concurrencyLimit) < Len(currentLevel)
                    THEN /\ pc' = "await"
                         /\ nextLevel' = nl
                         /\ i' = NextI(i, concurrencyLimit)
                         /\ promises' = IssueChunk(currentLevel,
                               NextI(i, concurrencyLimit), concurrencyLimit)
                         /\ issued' = issued \cup FetchLog(currentLevel,
                               NextI(i, concurrencyLimit), concurrencyLimit,
                               depth)
                         /\ UNCHANGED <<currentLevel, depth>>
                    ELSE LevelEnd(nl, visited)
    /\ UNCHANGED server
    /\ UNCHANGED <<inputs, visited, anySucceeded, anyFailed>>

Next ==
    \/ Start
    \/ \E k \in 1..MaxConcurrency : Respond(k)
    \/ \E k \in 1..MaxConcurrency : Fail(k)
    \/ Resume

Spec == Init /\ [][Next]_vars

\* Every issued request completes: axios settles each GET with a response,
\* an error or the 10 s timeout; the event loop then runs the continuation.
Settle(k) == Respond(k) \/ Fail(k)

LiveSpec ==
    /\ Spec
    /\ WF_vars(Start)
    /\ WF_vars(\E k \in 1..MaxConcurrency : Settle(k))
    /\ WF_vars(Resume)

(* ------------- a larger site, every request succeeding ---------------- *)
OrderMaxDepth == 3
OrderMaxPages == 8

Rel(p) == Str("", "", p)

OrderSeed == Str("http", "a.com", "/s")

\* An eight-page site: /s links to /a and /b, /a to /x, /y and /z, /b to
\* /x, /x to /w and /z to /v.
OrderLinks(p) ==
    IF p = "/s" THEN <<Rel("/a"), Rel("/b")>>
    ELSE IF p = "/a" THEN <<Rel("/x"), Rel("/y"), Rel("/z")>>
    ELSE IF p = "/b" THEN <<Rel("/x")>>
    ELSE IF p = "/x" THEN <<Rel("/w")>>
    ELSE IF p = "/z" THEN <<Rel("/v")>>
    ELSE <<>>

OrderPaths == {"/s", "/a", "/b", "/x", "/y", "/z", "/w", "/v"}

OrderPages == {Str("http", "a.com", p) : p \in OrderPaths}

\* The sites obtained by keeping, on each page, a prefix of its links.
OrderSites ==
    {[u \in OrderPages |-> SubSeq(OrderLinks(u.path), 1, n[u.path])] :
        n \in {m \in [OrderPaths -> 0..3] :
                  \A p \in OrderPaths : m[p] <= Len(OrderLinks(p))}}

OrderInit ==
    /\ startUrl = OrderSeed
    /\ maxDepth \in 0..OrderMaxDepth
    /\ concurrencyLimit \in 1..MaxConcurrency
    /\ maxPages \in 1..OrderMaxPages
    /\ site \in OrderSites
    /\ visited = {}
    /\ currentLevel = <<>>
    /\ nextLevel = <<>>
    /\ depth = 0
    /\ i = 0
    /\ promises = <<>>
    /\ pc = "idle"
    /\ issued = {}
    /\ anySucceeded = FALSE
    /\ anyFailed = FALSE
    /\ ServerIdle

OrderNext ==
    \/ Start
    \/ \E k \in 1..MaxConcurrency : Respond(k)
    \/ Resume

OrderSpec == OrderInit /\ [][OrderNext]_vars

(* -------------------- POST /run-tests: actions ------------------------ *)
\* Mutant: the poll is repeated once more than maxAttempts allows.
MorePollsInclusive(a, m) == a <= m

\* attempts < maxAttempts
MorePolls(a, m) == a < m

\* callback(err, data) as passed by the route: it writes the outcome and
\* ends the response.
Callback(q, arg) ==
    [q EXCEPT !.callbacks = @ + 1, !.cbArg = arg, !.ended = @ + 1,
              !.pc = "ended"]

\* checkFile of waitForResultsFile, for the request in state q.
CheckFile(q) ==
    LET p == [q EXCEPT !.attempts = @ + 1]
    IN IF resultsFile
       THEN [p EXCEPT !.pc = "reading", !.sawFile = TRUE]
       ELSE IF MorePolls(p.attempts, maxAttempts)
            THEN [p EXCEPT !.pc = "timer"]
            ELSE Callback(p, "timeout")

\* No request yet: the polling limit and a results.json possibly left by
\* an earlier run; the crawl is not running.
ServerInit ==
    /\ startUrl = SeedPlain
    /\ maxDepth = 0
    /\ concurrencyLimit = 1
    /\ maxPages = 1
    /\ site = [p \in Pages |-> <<>>]
    /\ visited = {}
    /\ currentLevel = <<>>
    /\ nextLevel = <<>>
    /\ depth = 0
    /\ i = 0
    /\ promises = <<>>
    /\ pc = "idle"
    /\ issued = {}
    /\ anySucceeded = FALSE
    /\ anyFailed = FALSE
    /\ env = NoEnv
    /\ smartuiFile = NoValue
    /\ urlsFile = NoValue
    /\ resultsFile \in BOOLEAN
    /\ maxAttempts \in 0..MaxAttemptsBound
    /\ req = [r \in Reqs |-> IdleReq]

\* The route handler up to its first suspension: without selected URLs it
\* answers at once; otherwise it stores the credentials in process.env,
\* writes .smartui.json and suspends at the first getPageTitle.
RunTests(r, n) ==
    /\ req[r].pc = "idle"
    /\ IF n = 0
       THEN /\ req' = [req EXCEPT ![r].pc = "ended", ![r].ended = @ + 1]
            /\ UNCHANGED <<env, smartuiFile>>
       ELSE /\ env' = Credentials(r)
            /\ smartuiFile' = ConfigOf(r)
            /\ req' = [req EXCEPT ![r].pc = "titles", ![r].titlesLeft = n]
    /\ UNCHANGED <<crawl, urlsFile, resultsFile, maxAttempts>>

\* One getPageTitle of saveUrlsWithTitles settles.  After the last one
\* urls.json is written, the handler resumes, builds testCmd from
\* process.env and calls exec.
TitleFetched(r) ==
    /\ req[r].pc = "titles"
    /\ IF req[r].titlesLeft > 1
       THEN /\ req' = [req EXCEPT ![r].titlesLeft = @ - 1]
            /\ UNCHANGED urlsFile
       ELSE /\ urlsFile' = UrlsOf(r)
            /\ req' = [req EXCEPT ![r].titlesLeft = 0,
                                  ![r].testCmd = env,
                                  ![r].pc = "exec"]
    /\ UNCHANGED <<crawl, env, smartuiFile, resultsFile, maxAttempts>>

\* The child process of exec reads .smartui.json and urls.json.
ChildRuns(r) ==
    /\ req[r].pc = "exec"
    /\ req' = [req EXCEPT ![r].pc = "ran",
                          ![r].ranConfig = smartuiFile,
                          ![r].ranUrls = urlsFile]
    /\ UNCHANGED <<crawl, env, smartuiFile, urlsFile, resultsFile,
                   maxAttempts>>

\* The smartui run writes results.json.
ResultsAppear ==
    /\ ~resultsFile
    /\ \E r \in Reqs : req[r].pc \in {"ran", "timer"}
    /\ resultsFile' = TRUE
    /\ UNCHANGED <<crawl, env, smartuiFile, urlsFile, maxAttempts, req>>

\* The callback of exec: on an error the response is ended, otherwise
\* waitForResultsFile is called and runs checkFile for the first time.
ExecCallback(r, error) ==
    /\ req[r].pc \in {"exec", "ran"}
    /\ ~error => req[r].pc = "ran"
    /\ req' = [req EXCEPT ![r] =
                  IF error
                  THEN [req[r] EXCEPT !.pc = "ended", !.ended = @ + 1]
                  ELSE CheckFile(req[r])]
    /\ UNCHANGED <<crawl, env, smartuiFile, urlsFile, resultsFile,
                   maxAttempts>>

\* setTimeout(checkFile, interval) fires.
TimerFires(r) ==
    /\ req[r].pc = "timer"
    /\ req' = [req EXCEPT ![r] = CheckFile(req[r])]
    /\ UNCHANGED <<crawl, env, smartuiFile, urlsFile, resultsFile,
                   maxAttempts>>

\* The callback of fs.readFile: the data or a read error.
ReadDone(r, err) ==
    /\ req[r].pc = "reading"
    /\ req' = [req EXCEPT ![r] =
                  Callback(req[r], IF err THEN "readError" ELSE "data")]
    /\ UNCHANGED <<crawl, env, smartuiFile, urlsFile, resultsFile,
                   maxAttempts>>

ServerNext ==
    \/ \E r \in Reqs, n \in 0..MaxUrls : RunTests(r, n)
    \/ \E r \in Reqs : TitleFetched(r)
    \/ \E r \in Reqs : ChildRuns(r)
    \/ ResultsAppear
    \/ \E r \in Reqs, error \in BOOLEAN : ExecCallback(r, error)
    \/ \E r \in Reqs : TimerFires(r)
    \/ \E r \in Reqs, err \in BOOLEAN : ReadDone(r, err)

ServerSpec == ServerInit /\ [][ServerNext]_vars

\* A timer that is set fires, and a read that is started completes.
ServerSettle ==
    \A r \in Reqs :
        /\ WF_vars(TimerFires(r))
        /\ WF_vars(\E err \in BOOLEAN : ReadDone(r, err))

ServerLiveSpec == ServerSpec /\ ServerSettle

(* ----------------------------- claims --------------------------------- *)
Called == pc # "idle"

Fetched == {r.url : r \in issued}

\* C1: in every state of a crawl the visited set has at most maxPages
\* elements, hence so has the returned set.
C1_VisitedWithinMaxPages == Called => Cardinality(visited) <= maxPages

\* C2: with maxPages = 1 the crawl returns exactly {seed}.
C2_MaxPagesOneReturnsSeed ==
    (pc = "done" /\ maxPages = 1) => visited = {startUrl}

\* C3: the number of requests issued and not yet completed never exceeds
\* concurrencyLimit.
C3_InFlightWithinLimit == Cardinality(InFlight) <= concurrencyLimit

C3_Witness ==
    /\ concurrencyLimit = 2
    /\ Len(currentLevel) > concurrencyLimit
    /\ Cardinality(InFlight) = concurrencyLimit

\* C4: every visited URL, every frontier entry and every requested URL has
\* the seed's hostname.
C4_SameHostOnly ==
    \A u \in visited \cup Range(currentLevel) \cup Range(nextLevel)
             \cup Fetched :
        Hostname(u) = Hostname(startUrl)

C4_Witness ==
    /\ pc = "done"
    /\ Cardinality(visited) > 1
    /\ \E k \in 1..Len(Body(startUrl)) :
          /\ Resolve(Body(startUrl)[k], startUrl) # NullLink
          /\ Hostname(Resolve(Body(startUrl)[k], startUrl))
                # Hostname(startUrl)

\* C5: the seed is in the visited set from the call on; when every request
\* fails the crawl still returns, and returns exactly {seed}.
C5_SeedAlwaysVisited ==
    Called =>
        /\ startUrl \in visited
        /\ pc # "threw"
        /\ (pc = "done" /\ ~anySucceeded) => visited = {startUrl}

C5_Witness ==
    /\ pc = "done"
    /\ anyFailed
    /\ ~anySucceeded
    /\ ParsesAlone(startUrl)
    /\ Body(startUrl) # <<>>

\* C6: the depth counter never exceeds maxDepth, every request belongs to a
\* level below maxDepth, and with maxDepth = 0 nothing is requested and the
\* result is {seed}.
C6_DepthWithinMaxDepth ==
    /\ depth <= maxDepth
    /\ \A r \in issued : r.depth < maxDepth
    /\ (Called /\ maxDepth = 0) =>
          (pc = "done" /\ issued = {} /\ visited = {startUrl})

C6_Witness ==
    /\ pc = "done"
    /\ maxDepth = 2
    /\ depth = maxDepth
    /\ currentLevel # <<>>
    /\ ~CapReached(visited, maxPages)

\* C7: when every issued request eventually completes, the crawl
\* eventually returns.
C7_EventuallyReturns == <>(pc = "done")

C7_Witness ==
    /\ pc = "done"
    /\ depth = 2
    /\ anySucceeded
    /\ anyFailed
    /\ Cardinality(Fetched) >= 3

\* C8: a failed request yields the empty list and changes neither the
\* visited set nor the frontiers; the await never throws; the join merges
\* the links of every request of the batch; the crawl stops only for the
\* depth limit, the page cap or an empty frontier.
C8_JoinMerged ==
    LET merged == nextLevel \o
                    Flatten([k \in 1..Len(promises) |-> promises[k].value])
    IN (pc = "await" /\ InFlight = {} /\ promises' # promises) =>
          /\ pc' \in {"await", "done"}
          /\ (pc' = "await" /\ depth' = depth) => nextLevel' = merged
          /\ (pc' = "done" \/ depth' # depth) => currentLevel' = merged

C8_FailStep ==
    \A k \in 1..Len(promises) :
        (/\ pc = "await" /\ pc' = "await"
         /\ promises[k].state = "pending"
         /\ k \in 1..Len(promises')
         /\ promises'[k].outcome = "failed") =>
            /\ promises'[k].state = "fulfilled"
            /\ promises'[k].value = <<>>
            /\ visited' = visited
            /\ nextLevel' = nextLevel
            /\ currentLevel' = currentLevel
            /\ \A j \in 1..Len(promises) : j # k => promises'[j] = promises[j]

C8_FailureAbsorbed ==
    /\ [](pc # "threw")
    /\ [](pc = "done" =>
            \/ ~LoopCond(depth, maxDepth)
            \/ Cardinality(visited) >= maxPages
            \/ currentLevel = <<>>)
    /\ [][C8_FailStep /\ C8_JoinMerged]_vars

C8_Witness ==
    /\ pc = "await"
    /\ InFlight = {}
    /\ \E j, k \in 1..Len(promises) :
          /\ promises[j].outcome = "failed"
          /\ promises[k].outcome = "ok"
          /\ promises[k].value # <<>>

\* C9: for an unparsable seed the crawl does not return a set; it signals
\* an error.
C9_InvalidSeedSignalled == pc = "done" => ParsesAlone(startUrl)

\* C10: the result is a subset of the reference set (seed plus same-host
\* URLs within maxDepth links of it), and equals it when every request
\* succeeded and the page cap was not reached.
LinksOf(u) ==
    {l \in {Resolve(Body(u)[k], u) : k \in 1..Len(Body(u))} :
        l # NullLink /\ Hostname(l) = Hostname(startUrl)}

RECURSIVE Within(_, _)
Within(S, n) ==
    IF n = 0 THEN S ELSE Within(S \cup UNION {LinksOf(u) : u \in S}, n - 1)

Reference == Within({startUrl}, maxDepth)

C10_ResultIsReference ==
    Called =>
        /\ visited \subseteq Reference
        /\ (pc = "done" /\ ~anyFailed /\ Cardinality(visited) < maxPages)
              => visited = Reference

C10_Witness ==
    /\ pc = "done"
    /\ ~anyFailed
    /\ maxDepth = 1
    /\ startUrl = SeedPlain
    /\ site[PageRoot] = <<Str("", "", "/about"), Str("http", "b.com", "/x")>>
    /\ visited = {SeedPlain, PageAbout}

C12_NoRefetch ==
    pc = "await" =>
        /\ \A j, k \in 1..Len(currentLevel) :
              j # k => currentLevel[j] # currentLevel[k]
        /\ \A r \in issued :
              r.depth < depth =>
                 \A k \in 1..Len(currentLevel) : currentLevel[k] # r.url

\* C13: within a level, a link appended to the next frontier by an earlier
\* batch (and added to the visited set then) is not returned again by any
\* request of a later batch.
C13_LaterBatchSkipsEarlierLinks ==
    pc = "await" =>
        \A k \in 1..Len(promises) :
            \A n \in 1..Len(promises[k].value) :
                \A m \in 1..Len(nextLevel) :
                    promises[k].value[n] # nextLevel[m]

C13_Witness ==
    /\ pc = "await"
    /\ i > 0
    /\ \E k \in 1..Len(promises) :
          /\ promises[k].outcome = "ok"
          /\ \E n \in 1..Len(Body(promises[k].url)) :
                \E m \in 1..Len(nextLevel) :
                    Resolve(Body(promises[k].url)[n], promises[k].url)
                        = nextLevel[m]

\* C14: the requests in flight are a slice of at most concurrencyLimit
\* consecutive frontier entries, in frontier order, starting at a multiple
\* of concurrencyLimit; a new slice (or the first slice of the next level)
\* is issued only when no request of the previous one is pending, and it is
\* the slice that follows the previous one.
C14_SliceShape ==
    pc = "await" =>
        /\ Len(promises) >= 1
        /\ Len(promises) <= concurrencyLimit
        /\ i % concurrencyLimit = 0
        /\ i + Len(promises) <= Len(currentLevel)
        /\ (Len(promises) = concurrencyLimit
               \/ i + Len(promises) = Len(currentLevel))
        /\ \A k \in 1..Len(promises) : promises[k].url = currentLevel[i + k]

C14_IssueStep ==
    (\E k \in InFlight' : k \notin InFlight) =>
        /\ InFlight = {}
        /\ \/ pc = "idle" /\ i' = 0 /\ depth' = 0
           \/ /\ pc = "await"
              /\ depth' = depth
              /\ currentLevel' = currentLevel
              /\ i' = i + concurrencyLimit
           \/ /\ pc = "await"
              /\ depth' = depth + 1
              /\ i' = 0
              /\ i + concurrencyLimit >= Len(currentLevel)

C14_BatchesInOrder == []C14_SliceShape /\ [][C14_IssueStep]_vars

C14_Witness ==
    /\ pc = "await"
    /\ concurrencyLimit = 2
    /\ i = concurrencyLimit
    /\ InFlight # {}
    /\ depth = 1

\* C15: when a batch has completed with the visited set at or above
\* maxPages, the next step is the return, with no new request and the
\* visited set as it is; after the return nothing changes.
C15_StopStep ==
    /\ (pc = "await" /\ InFlight = {} /\ Cardinality(visited) >= maxPages) =>
          (pc' = "done" /\ issued' = issued /\ visited' = visited)
    /\ pc = "done" =>
          (pc' = "done" /\ issued' = issued /\ visited' = visited)

C15_StopsAtCap == [][C15_StopStep]_vars

C15_Witness ==
    /\ pc = "await"
    /\ InFlight = {}
    /\ Cardinality(visited) >= maxPages
    /\ i + concurrencyLimit < Len(currentLevel)

\* C17: every element of the visited set of a crawl with a parsable seed
\* is in normalised form, so no two elements name the same page.
C17_AllNormalised ==
    (Called /\ ParsesAlone(startUrl)) =>
        /\ \A u \in visited : Resolve(u, u) = u
        /\ \A u, v \in visited : PageOf(u) = PageOf(v) => u = v

\* C18: the visited set never loses an element, and it contains every
\* entry of the current and the next frontier, every link returned by a
\* request and every requested URL.
C18_Members ==
    Called =>
        /\ \A k \in 1..Len(currentLevel) : currentLevel[k] \in visited
        /\ \A k \in 1..Len(nextLevel) : nextLevel[k] \in visited
        /\ \A r \in issued : r.url \in visited
        /\ \A k \in 1..Len(promises) :
              \A n \in 1..Len(promises[k].value) :
                  promises[k].value[n] \in visited

C18_VisitedGrows == []C18_Members /\ [][visited \subseteq visited']_vars

C18_Witness ==
    /\ pc = "await"
    /\ depth = 1
    /\ Len(currentLevel) > 1
    /\ \E k \in 1..Len(promises) : promises[k].value # <<>>

\* C16: the returned set does not depend on the order in which the
\* requests of a batch complete: every run in which all requests succeed
\* returns the set of the run whose requests complete in frontier order.
RECURSIVE InOrderChunk(_, _, _)
InOrderChunk(vis, links, chunk) ==
    IF chunk = <<>> THEN [vis |-> vis, links |-> links]
    ELSE LET new == NewLinks(ExtractLinks(Body(Head(chunk)), Head(chunk)),
                             vis, startUrl)
         IN InOrderChunk(vis \cup Range(new), links \o new, Tail(chunk))

RECURSIVE InOrderFrom(_, _, _, _, _)
InOrderFrom(vis, level, idx, nl, d) ==
    LET r == InOrderChunk(vis, nl, Chunk(level, idx, concurrencyLimit))
    IN IF ~CapReached(r.vis, maxPages)
          /\ NextI(idx, concurrencyLimit) < Len(level)
       THEN InOrderFrom(r.vis, level, NextI(idx, concurrencyLimit),
                        r.links, d)
       ELSE IF CapReached(r.vis, maxPages) \/ r.links = <<>>
                 \/ ~LoopCond(d + 1, maxDepth)
            THEN r.vis
            ELSE InOrderFrom(r.vis, r.links, 0, <<>>, d + 1)

InOrderResult ==
    IF LoopCond(0, maxDepth)
    THEN InOrderFrom({startUrl}, <<startUrl>>, 0, <<>>, 0)
    ELSE {startUrl}

C16_OrderIndependentResult ==
    (pc = "done" /\ ~anyFailed) => visited = InOrderResult

\* C19: the command of a request is built from that request's own
\* credentials, and its child process reads the .smartui.json and the
\* urls.json written for that request.
C19_OwnCredentialsAndFiles ==
    \A r \in Reqs :
        /\ req[r].testCmd # NoEnv => req[r].testCmd = Credentials(r)
        /\ req[r].pc = "ran" =>
              (req[r].ranConfig = ConfigOf(r) /\ req[r].ranUrls = UrlsOf(r))

Max(a, b) == IF a > b THEN a ELSE b

\* C20: each call of waitForResultsFile invokes its callback exactly once:
\* while it has not, exactly a timer or a read is pending; the data or the
\* read error follows a poll that found the file, the timeout follows
\* maxAttempts polls (one poll when maxAttempts < 1) that all found it
\* absent; there are never more than max(1, maxAttempts) polls, none after
\* the callback, and the response is ended exactly once.
C20_State ==
    \A r \in Reqs :
        /\ req[r].callbacks <= 1
        /\ req[r].ended <= 1
        /\ req[r].attempts <= Max(1, maxAttempts)
        /\ req[r].attempts > 0 =>
              \/ req[r].pc \in {"timer", "reading"} /\ req[r].callbacks = 0
                    /\ req[r].ended = 0
              \/ req[r].pc = "ended" /\ req[r].callbacks = 1
                    /\ req[r].ended = 1
        /\ req[r].pc = "timer" => ~req[r].sawFile
        /\ req[r].pc = "reading" => req[r].sawFile
        /\ req[r].cbArg = "timeout" =>
              (/\ ~req[r].sawFile
               /\ req[r].attempts >= maxAttempts
               /\ req[r].attempts = Max(1, maxAttempts))
        /\ req[r].cbArg \in {"data", "readError"} => req[r].sawFile
        /\ req[r].callbacks = 1 <=> req[r].cbArg # "none"

C20_Step ==
    \A r \in Reqs :
        req[r].callbacks >= 1 =>
            (req'[r].attempts = req[r].attempts /\ req'[r] = req[r])

C20_Eventually ==
    \A r \in Reqs : (req[r].attempts > 0) ~> (req[r].callbacks = 1)

C20_CallbackExactlyOnce ==
    []C20_State /\ [][C20_Step]_vars /\ C20_Eventually

C20_Witness ==
    \E r \in Reqs :
        /\ maxAttempts >= 2
        /\ req[r].cbArg = "timeout"
        /\ req[r].attempts = maxAttempts
        /\ req[r].ended = 1

====
